---- MODULE Spec2Model ----
(***************************************************************************)
(* Model of anobbsclient: the login gatekeeper, the retrieval workflows    *)
(* (get_board_page, get_thread_page), the reply workflow (reply_thread)    *)
(* of client.py and the Thread object of objects.py.                       *)
(***************************************************************************)
EXTENDS Integers, Sequences, FiniteSets, TLC

\* ---------------------------------------------------------------- bounds
MaxPage == 3
MaxGate == 2
MaxAttempts == 3
MaxBytes == 2
MaxReplies == 2
MaxMarkers == 2
MaxReads == 2

\* ------------------------------------------------------------- constants
\* the reserved system identity, the literal "芦苇" of client.py line 100
LUWEI == "luwei"
\* the payload '该主题不存在' of client.py line 90
THREAD_NOT_EXISTS == "thread_not_exists"

LoginPolicies == {"enforce", "when_has_cookie", "always_no", "when_required"}

VARIABLES
    pc,         \* "idle" | "try" (inside try_request) | "done" | "object"
    call,       \* the arguments and options of the running workflow
    attempts,   \* number of invocations of request_fn
    attemptLog, \* bytes of each invocation of request_fn, in order
    usage,      \* the executor's accumulated BandwidthUsage
    executor,   \* "none" | "running" | how try_request ended
    outcome,    \* "none" | "ok" | the name of the exception raised
    result,     \* what the workflow returned, or what the exception carries
    thread,     \* a Thread object (objects.py), or NoThread
    orig,       \* the raw record the Thread object was constructed from
    reads,      \* what each read of thread.replies yielded, until it is assigned
    touched,    \* replies was read or assigned since construction
    assigned,   \* the replies setter was called since construction
    json        \* result of the last to_json, or NoJson

vars == <<pc, call, attempts, attemptLog, usage, executor, outcome, result,
          thread, orig, reads, touched, assigned, json>>

\* ------------------------------------------------------------ gatekeeper
\* variant: "always_no" taken by its name, never requiring login
page_requires_login_always_no_never(page, gate_keeper, login_policy, has_cookie) ==
    IF login_policy = "enforce" THEN "true"
    ELSE IF login_policy = "when_has_cookie"
         THEN (IF has_cookie \/ page > gate_keeper THEN "true" ELSE "false")
    ELSE IF login_policy = "always_no" THEN "false"
    ELSE IF login_policy = "when_required"
         THEN (IF page > gate_keeper THEN "true" ELSE "false")
    ELSE "ShouldNotReachException"

\* Client.page_requires_login: "true", "false", or the exception raised
page_requires_login(page, gate_keeper, login_policy, has_cookie) ==
    IF login_policy = "enforce" THEN "true"
    ELSE IF login_policy = "when_has_cookie"
         THEN (IF has_cookie \/ page > gate_keeper THEN "true" ELSE "false")
    ELSE IF login_policy \in {"always_no", "when_required"}
         THEN (IF page > gate_keeper THEN "true" ELSE "false")
    ELSE "ShouldNotReachException"

\* variant: threads gated beyond the gatekeeper page, as boards are
thread_page_requires_login_gated(page, gk_pn, login_policy, has_cookie) ==
    IF page > gk_pn THEN "GatekeptException"
    ELSE page_requires_login(page, gk_pn, login_policy, has_cookie)

\* Client.thread_page_requires_login
thread_page_requires_login(page, gk_pn, login_policy, has_cookie) ==
    page_requires_login(page, gk_pn, login_policy, has_cookie)

\* variant: the gatekeeper page itself is gated (>= for >)
board_page_requires_login_inclusive(page, gk_pn, login_policy, has_cookie) ==
    IF page >= gk_pn THEN "GatekeptException"
    ELSE page_requires_login(page, gk_pn, login_policy, has_cookie)

\* Client.board_page_requires_login
board_page_requires_login(page, gk_pn, login_policy, has_cookie) ==
    IF page > gk_pn THEN "GatekeptException"
    ELSE page_requires_login(page, gk_pn, login_policy, has_cookie)

\* ------------------------------------------------ objects.py: data model
\* values of a raw record's fields, as json.loads gives them
Str(s) == [t |-> "str", s |-> s, items |-> <<>>]
None == [t |-> "none", s |-> "", items |-> <<>>]
List(items) == [t |-> "list", s |-> "", items |-> items]
\* a map object (the lazy iterator built by map(...)) stored as a value
MapValue == [t |-> "map", s |-> "", items |-> <<>>]

\* OrderedDict operations on a raw record: a sequence of [k, v] fields
HasKey(d, key) == \E i \in DOMAIN d : d[i].k = key
Get(d, key) == d[CHOOSE i \in DOMAIN d : d[i].k = key].v
SetItem(d, key, val) ==
    IF HasKey(d, key)
    THEN [i \in DOMAIN d |-> IF d[i].k = key THEN [k |-> key, v |-> val] ELSE d[i]]
    ELSE Append(d, [k |-> key, v |-> val])
IsNotKey(f, key) == f.k /= key
Pop(d, key) == SelectSeq(d, LAMBDA f : IsNotKey(f, key))

\* Post.__init__
Post(data) == [raw |-> data]
\* Post.user_id
user_id(post) == post.raw.userid

\* the values the attribute Thread.__replies takes
NoReplies == [kind |-> "none", items |-> <<>>, pos |-> 0]
\* map(lambda post: Post(post), src): a one-shot iterator over src
MapReplies(src) == [kind |-> "map", items |-> src, pos |-> 0]
ListReplies(posts) == [kind |-> "list", items |-> posts, pos |-> 0]

\* Thread.__init__
Thread(data) ==
    IF HasKey(data, "replys")
    THEN [raw |-> SetItem(data, "replys", None),
          replies |-> MapReplies(Get(data, "replys").items)]
    ELSE [raw |-> data, replies |-> NoReplies]

\* what iterating r to the end yields now (list(r)); r is not None
Yield(r) ==
    IF r.kind = "list" THEN r.items
    ELSE [i \in 1..(Len(r.items) - r.pos) |-> Post(r.items[r.pos + i])]
\* the object r after it was iterated to the end
Exhaust(r) ==
    IF r.kind = "map" THEN [r EXCEPT !.pos = Len(r.items)] ELSE r

\* json.dumps: the document written, or the exception raised
JsonValue(v) ==
    IF v.t = "none" THEN [t |-> "null", s |-> "", items |-> <<>>]
    ELSE IF v.t = "list" THEN [t |-> "array", s |-> "", items |-> v.items]
    ELSE [t |-> "string", s |-> v.s, items |-> <<>>]
json_dumps(data) ==
    IF \E i \in DOMAIN data : data[i].v.t = "map"
    THEN [err |-> "TypeError", doc |-> <<>>]
    ELSE [err |-> "", doc |-> [i \in DOMAIN data |->
                                 [k |-> data[i].k, v |-> JsonValue(data[i].v)]]]

\* Post.raw_copy
raw_copy(obj) == obj.raw

\* Thread.to_json
to_json(obj) ==
    LET data == raw_copy(obj) IN
    IF obj.replies.kind /= "none"
    THEN json_dumps(SetItem(data, "replys", MapValue))
    ELSE json_dumps(Pop(data, "replys"))

\* ------------------------------------------- reply_thread: the response
\* a response document: the sequence of its div.system-message containers,
\* each the sequence of its p elements [cls : set of classes, text]
Absent == [some |-> FALSE, text |-> ""]
Some(text) == [some |-> TRUE, text |-> text]

\* doc.find('div', attrs={'class': 'system-message'}): the first one
find(doc) == IF Len(doc) = 0 THEN Absent ELSE [some |-> TRUE, div |-> doc[1]]
HasClass(p, cls) == cls \in p.cls
\* div.find_all('p', attrs={'class': cls})
find_all(div, cls) == SelectSeq(div, LAMBDA p : HasClass(p, cls))

\* the detail carried by ReplyException (client.py lines 198-203)
reply_detail(sys_msg_div) ==
    LET detail_divs == find_all(sys_msg_div, "detail") IN
    IF Len(detail_divs) /= 0
    THEN (IF detail_divs[1].text = "" THEN Absent ELSE Some(detail_divs[1].text))
    ELSE Absent

\* variant: the error markers are looked at before the success markers
reply_thread_error_first(doc) ==
    LET sys_msg_div == find(doc) IN
    IF ~sys_msg_div.some
    THEN [outcome |-> "UnknownResponseException", raw_error |-> "", raw_detail |-> Absent]
    ELSE IF Len(find_all(sys_msg_div.div, "error")) /= 0
    THEN [outcome |-> "ReplyException",
          raw_error |-> find_all(sys_msg_div.div, "error")[1].text,
          raw_detail |-> reply_detail(sys_msg_div.div)]
    ELSE IF Len(find_all(sys_msg_div.div, "success")) /= 0
    THEN [outcome |-> "ok", raw_error |-> "", raw_detail |-> Absent]
    ELSE [outcome |-> "UnknownResponseException", raw_error |-> "", raw_detail |-> Absent]

\* Client.reply_thread after the response body is read (lines 183-205)
reply_thread(doc) ==
    LET sys_msg_div == find(doc) IN
    IF ~sys_msg_div.some
    THEN [outcome |-> "UnknownResponseException", raw_error |-> "", raw_detail |-> Absent]
    ELSE IF Len(find_all(sys_msg_div.div, "success")) /= 0
    THEN [outcome |-> "ok", raw_error |-> "", raw_detail |-> Absent]
    ELSE IF Len(find_all(sys_msg_div.div, "error")) = 0
    THEN [outcome |-> "UnknownResponseException", raw_error |-> "", raw_detail |-> Absent]
    ELSE [outcome |-> "ReplyException",
          raw_error |-> find_all(sys_msg_div.div, "error")[1].text,
          raw_detail |-> reply_detail(sys_msg_div.div)]

\* ------------------------------------------------------------- executor
ZeroUsage == [uploaded |-> 0, downloaded |-> 0]
\* BandwidthUsage accumulation over the attempts of one operation
add_usage(total, u) ==
    [uploaded |-> total.uploaded + u.uploaded,
     downloaded |-> total.downloaded + u.downloaded]

\* variant: one attempt too many (<= for <)
try_request_one_more(i, max_attempts, kind) ==
    IF kind = "ok" THEN "return"
    ELSE IF kind = "fatal" THEN "raise"
    ELSE IF i <= max_attempts THEN "retry"
    ELSE "raise_exhausted"

\* try_request: what the executor does after attempt number i ended with
\* kind "ok", "transient" or "fatal"
try_request(i, max_attempts, kind) ==
    IF kind = "ok" THEN "return"
    ELSE IF kind = "fatal" THEN "raise"
    ELSE IF i < max_attempts THEN "retry"
    ELSE "raise_exhausted"

\* the max_attempts argument handed to try_request (lines 58 and 96)
get_max_attempts(options) == options.max_attempts

\* ------------------------------------------------- retrieval workflows
\* Client.get_board_page up to the call of try_request (lines 42-45)
get_board_page(page, gk_pn, login_policy, has_cookie) ==
    LET needs_login == board_page_requires_login(page, gk_pn, login_policy, has_cookie) IN
    IF needs_login \notin {"true", "false"} THEN needs_login
    ELSE IF needs_login = "true" /\ ~has_cookie THEN "RequiresLoginException"
    ELSE "request"

\* variant: the request is sent without the check of line 80
get_thread_page_unchecked(page, gk_pn, login_policy, has_cookie) ==
    LET needs_login == thread_page_requires_login(page, gk_pn, login_policy, has_cookie) IN
    IF needs_login \notin {"true", "false"} THEN needs_login
    ELSE "request"

\* Client.get_thread_page up to the call of try_request (lines 78-81)
get_thread_page(page, gk_pn, login_policy, has_cookie) ==
    LET needs_login == thread_page_requires_login(page, gk_pn, login_policy, has_cookie) IN
    IF needs_login \notin {"true", "false"} THEN needs_login
    ELSE IF needs_login = "true" /\ ~has_cookie THEN "RequiresLoginException"
    ELSE "request"

IsNotLuwei(post) == user_id(post) /= LUWEI
\* get_thread_page after try_request returned (lines 98-102): the
\* thread_page returned, or the exception of filter(..., None)
for_analysis_filter(thread_page, for_analysis) ==
    IF ~for_analysis THEN [err |-> "", page |-> thread_page]
    ELSE IF thread_page.replies.kind = "none"
    THEN [err |-> "TypeError", page |-> thread_page]
    ELSE [err |-> "",
          page |-> [thread_page EXCEPT !.replies =
                      ListReplies(SelectSeq(Yield(thread_page.replies), IsNotLuwei))]]

\* variant: only the bytes of the attempt that succeeded are handed back
returned_usage_last(total, last) == last

\* the usage the executor hands back with the result (lines 57 and 95)
returned_usage(total, last) == total

\* --------------------------------------------------------------- inputs
Pages == 1..MaxPage
Gates == 1..MaxGate
AttemptCounts == 1..MaxAttempts
AttemptUsages == {[uploaded |-> 1, downloaded |-> b] : b \in 1..MaxBytes}
UserIds == {LUWEI, "A"}
ReplyLists ==
    UNION {{[i \in 1..n |-> [id |-> i, userid |-> f[i]]] : f \in [1..n -> UserIds]}
           : n \in 0..MaxReplies}
BaseFields == <<[k |-> "id", v |-> Str("1")], [k |-> "content", v |-> Str("x")]>>
InsertAt(d, p, f) == SubSeq(d, 1, p - 1) \o <<f>> \o SubSeq(d, p, Len(d))
\* raw thread records: without "replys", or with it at any position
RawThreads ==
    {BaseFields} \cup
    {InsertAt(BaseFields, p, [k |-> "replys", v |-> List(rs)])
       : p \in 1..(Len(BaseFields) + 1), rs \in ReplyLists}
\* the thread records a fetch receives: the reply collection, if any, last
ThreadPayloads ==
    {BaseFields} \cup
    {Append(BaseFields, [k |-> "replys", v |-> List(rs)]) : rs \in ReplyLists}
BoardPayloads == {<<>>} \cup {<<r>> : r \in ThreadPayloads}
Classes == {"success", "error", "detail"}
Texts == {"", "x"}
Elements == [cls : SUBSET Classes, text : Texts]
Containers == UNION {[1..n -> Elements] : n \in 0..MaxMarkers}
\* containers that follow the first one of a document
LaterContainers ==
    {<<[cls |-> {"success"}, text |-> "x"]>>, <<[cls |-> {"error"}, text |-> "x"]>>}
Docs ==
    {<<>>} \cup {<<c>> : c \in Containers}
           \cup {<<c, d>> : c \in Containers, d \in LaterContainers}
PostLists == {[i \in DOMAIN rs |-> Post(rs[i])] : rs \in ReplyLists}

NoCall ==
    [op |-> "none", page |-> 0, gk |-> 0, policy |-> "", has_cookie |-> FALSE,
     max_attempts |-> 0, for_analysis |-> FALSE, doc |-> <<>>]
NoResult ==
    [needs_login |-> "", board |-> <<>>, usage |-> ZeroUsage,
     raw_error |-> "", raw_detail |-> Absent]
NoThread == [raw |-> <<>>, replies |-> NoReplies]
NoJson == [err |-> "none", doc |-> <<>>]

Init ==
    /\ pc = "idle"
    /\ call = NoCall
    /\ attempts = 0
    /\ attemptLog = <<>>
    /\ usage = ZeroUsage
    /\ executor = "none"
    /\ outcome = "none"
    /\ result = NoResult
    /\ thread = NoThread
    /\ orig = <<>>
    /\ reads = <<>>
    /\ touched = FALSE
    /\ assigned = FALSE
    /\ json = NoJson

\* ---------------------------------------------------------------- actions
\* a direct call of Client.page_requires_login
PageRequiresLogin ==
    /\ pc = "idle"
    /\ \E page \in Pages, gk \in Gates, policy \in LoginPolicies, cookie \in BOOLEAN :
         LET r == page_requires_login(page, gk, policy, cookie) IN
         /\ call' = [NoCall EXCEPT !.op = "page_requires_login", !.page = page,
                       !.gk = gk, !.policy = policy, !.has_cookie = cookie]
         /\ result' = [NoResult EXCEPT !.needs_login = r]
         /\ outcome' = IF r \in {"true", "false"} THEN "ok" ELSE r
    /\ pc' = "done"
    /\ UNCHANGED <<attempts, attemptLog, usage, executor, thread, orig, reads,
                   touched, assigned, json>>

\* what a retrieval workflow does with the decision e taken before the request
Enter(e) ==
    /\ pc' = IF e = "request" THEN "try" ELSE "done"
    /\ executor' = IF e = "request" THEN "running" ELSE "none"
    /\ outcome' = IF e = "request" THEN "none" ELSE e
    /\ UNCHANGED <<attempts, attemptLog, usage, result, thread, orig, reads,
                   touched, assigned, json>>

\* Client.get_board_page until try_request is entered
GetBoardPage ==
    /\ pc = "idle"
    /\ \E page \in Pages, gk \in Gates, policy \in LoginPolicies, cookie \in BOOLEAN,
          max \in AttemptCounts :
         /\ call' = [NoCall EXCEPT !.op = "board", !.page = page, !.gk = gk,
                       !.policy = policy, !.has_cookie = cookie, !.max_attempts = max]
         /\ Enter(get_board_page(page, gk, policy, cookie))

\* Client.get_thread_page until try_request is entered
GetThreadPage ==
    /\ pc = "idle"
    /\ \E page \in Pages, gk \in Gates, policy \in LoginPolicies, cookie \in BOOLEAN,
          max \in AttemptCounts, fa \in BOOLEAN :
         /\ call' = [NoCall EXCEPT !.op = "thread", !.page = page, !.gk = gk,
                       !.policy = policy, !.has_cookie = cookie, !.max_attempts = max,
                       !.for_analysis = fa]
         /\ Enter(get_thread_page(page, gk, policy, cookie))

\* one invocation of request_fn by try_request, ending with kind and bytes u
Attempt(kind, u) ==
    /\ pc = "try"
    /\ attempts <= MaxAttempts
    /\ attempts' = attempts + 1
    /\ attemptLog' = Append(attemptLog, [kind |-> kind, usage |-> u])
    /\ usage' = add_usage(usage, u)
    /\ UNCHANGED <<call, orig, reads, touched, assigned, json>>

\* how try_request goes on after a failed attempt; exc is what request_fn raised
Failed(kind, exc) ==
    LET step == try_request(attempts + 1, get_max_attempts(call), kind) IN
    /\ pc' = IF step = "retry" THEN "try" ELSE "done"
    /\ executor' = IF step = "retry" THEN "running"
                   ELSE IF step = "raise_exhausted" THEN "raised_exhausted"
                   ELSE "raised"
    /\ outcome' = IF step = "retry" THEN "none" ELSE exc
    /\ UNCHANGED <<result, thread>>

\* request_fn fails with a transient error of the transport
RequestTransient ==
    \E u \in AttemptUsages :
        /\ Attempt("transient", u)
        /\ Failed("transient", "TransientError")

\* request_fn fails because _get_json is denied access
RequestNoPermission ==
    \E u \in AttemptUsages :
        /\ Attempt("fatal", u)
        /\ Failed("fatal", "NoPermissionException")

\* get_thread_page's request_fn receives the payload of a missing thread
ThreadNotExists ==
    /\ call.op = "thread"
    /\ \E u \in AttemptUsages, thread_page_json \in {THREAD_NOT_EXISTS} :
        /\ Attempt("fatal", u)
        /\ Failed("fatal", "ResourceNotExistsException")

\* get_board_page's request_fn succeeds and the workflow returns
BoardRequestOk ==
    /\ call.op = "board"
    /\ try_request(attempts + 1, get_max_attempts(call), "ok") = "return"
    /\ \E u \in AttemptUsages, threads \in BoardPayloads :
        /\ Attempt("ok", u)
        /\ result' = [result EXCEPT
                        !.board = [i \in DOMAIN threads |-> Thread(threads[i])],
                        !.usage = returned_usage(add_usage(usage, u), u)]
    /\ pc' = "done"
    /\ executor' = "returned"
    /\ outcome' = "ok"
    /\ UNCHANGED thread

\* get_thread_page's request_fn succeeds; the workflow filters and returns
ThreadRequestOk ==
    /\ call.op = "thread"
    /\ try_request(attempts + 1, get_max_attempts(call), "ok") = "return"
    /\ \E u \in AttemptUsages, thread_page_json \in ThreadPayloads :
        LET f == for_analysis_filter(Thread(thread_page_json), call.for_analysis) IN
        /\ pc = "try"
        /\ attempts <= MaxAttempts
        /\ attempts' = attempts + 1
        /\ attemptLog' = Append(attemptLog, [kind |-> "ok", usage |-> u])
        /\ usage' = add_usage(usage, u)
        /\ thread' = f.page
        /\ orig' = thread_page_json
        /\ outcome' = IF f.err = "" THEN "ok" ELSE f.err
        /\ result' = IF f.err = ""
                     THEN [result EXCEPT !.usage = returned_usage(add_usage(usage, u), u)]
                     ELSE result
    /\ pc' = "done"
    /\ executor' = "returned"
    /\ UNCHANGED <<call, reads, touched, assigned, json>>

\* Client.reply_thread: post, raise_for_status, interpret the response
ReplyThread ==
    /\ pc = "idle"
    /\ \E status_ok \in BOOLEAN, doc \in Docs :
         LET r == reply_thread(doc) IN
         /\ ~status_ok => doc = <<>>
         /\ call' = [NoCall EXCEPT !.op = "reply", !.doc = doc]
         /\ outcome' = IF status_ok THEN r.outcome ELSE "HTTPError"
         /\ result' = IF status_ok
                      THEN [NoResult EXCEPT !.raw_error = r.raw_error,
                                            !.raw_detail = r.raw_detail]
                      ELSE NoResult
    /\ pc' = "done"
    /\ UNCHANGED <<attempts, attemptLog, usage, executor, thread, orig, reads,
                   touched, assigned, json>>

\* a Thread is constructed from a raw record
NewThread ==
    /\ pc = "idle"
    /\ \E data \in RawThreads :
        /\ thread' = Thread(data)
        /\ orig' = data
    /\ pc' = "object"
    /\ UNCHANGED <<call, attempts, attemptLog, usage, executor, outcome, result,
                   reads, touched, assigned, json>>

\* list(thread.replies): the getter, then an iteration to the end
ReadReplies ==
    /\ pc = "object"
    /\ thread.replies.kind /= "none"
    /\ assigned \/ Len(reads) < MaxReads
    /\ reads' = IF assigned THEN reads ELSE Append(reads, Yield(thread.replies))
    /\ thread' = [thread EXCEPT !.replies = Exhaust(@)]
    /\ touched' = TRUE
    /\ UNCHANGED <<pc, call, attempts, attemptLog, usage, executor, outcome, result,
                   orig, assigned, json>>

\* thread.replies = posts: the setter
SetReplies ==
    /\ pc = "object"
    /\ \E posts \in PostLists : thread' = [thread EXCEPT !.replies = ListReplies(posts)]
    /\ touched' = TRUE
    /\ assigned' = TRUE
    /\ UNCHANGED <<pc, call, attempts, attemptLog, usage, executor, outcome, result,
                   orig, reads, json>>

\* thread.to_json()
ToJson ==
    /\ pc = "object"
    /\ json' = to_json(thread)
    /\ UNCHANGED <<pc, call, attempts, attemptLog, usage, executor, outcome, result,
                   thread, orig, reads, touched, assigned>>

\* the call has ended, or the object is dropped: the next one starts afresh
Return ==
    /\ pc \in {"done", "object"}
    /\ pc' = "idle"
    /\ call' = NoCall
    /\ attempts' = 0
    /\ attemptLog' = <<>>
    /\ usage' = ZeroUsage
    /\ executor' = "none"
    /\ outcome' = "none"
    /\ result' = NoResult
    /\ thread' = NoThread
    /\ orig' = <<>>
    /\ reads' = <<>>
    /\ touched' = FALSE
    /\ assigned' = FALSE
    /\ json' = NoJson

Next ==
    \/ PageRequiresLogin
    \/ GetBoardPage
    \/ GetThreadPage
    \/ RequestTransient
    \/ RequestNoPermission
    \/ ThreadNotExists
    \/ BoardRequestOk
    \/ ThreadRequestOk
    \/ ReplyThread
    \/ NewThread
    \/ ReadReplies
    \/ SetReplies
    \/ ToJson
    \/ Return

Spec == Init /\ [][Next]_vars

\* ------------------------------------------------------------ properties
Retrieval == pc /= "idle" /\ call.op \in {"board", "thread"}
PastGate == call.page > call.gk
\* the decision the truth table of the login policies gives for the call
TableDecision ==
    CASE call.policy = "enforce" -> TRUE
      [] call.policy = "when_has_cookie" -> call.has_cookie \/ PastGate
      [] call.policy \in {"always_no", "when_required"} -> PastGate
Kinds(n) == {attemptLog[i].kind : i \in 1..n}
RECURSIVE SumUsage(_)
SumUsage(log) ==
    IF log = <<>> THEN ZeroUsage
    ELSE [uploaded |-> log[1].usage.uploaded + SumUsage(Tail(log)).uploaded,
          downloaded |-> log[1].usage.downloaded + SumUsage(Tail(log)).downloaded]
\* the Posts of the reply collection of a raw record, in its order
PostsOf(data) ==
    IF HasKey(data, "replys")
    THEN [i \in DOMAIN Get(data, "replys").items |-> Post(Get(data, "replys").items[i])]
    ELSE <<>>

\* C1: page_requires_login returns true for enforce, (credential or page
\* beyond the gatekeeper page) for when_has_cookie, and (page beyond the
\* gatekeeper page) for always_no and when_required alike, whatever the
\* credential.
C1_TruthTable ==
    (pc = "done" /\ call.op = "page_requires_login") =>
        /\ outcome = "ok"
        /\ result.needs_login \in {"true", "false"}
        /\ call.policy = "enforce" => result.needs_login = "true"
        /\ call.policy = "when_has_cookie" =>
              ((result.needs_login = "true") <=> (call.has_cookie \/ call.page > call.gk))
        /\ call.policy \in {"always_no", "when_required"} =>
              ((result.needs_login = "true") <=> (call.page > call.gk))

C1_Witness ==
    /\ pc = "done" /\ call.op = "page_requires_login"
    /\ call.policy = "always_no" /\ call.has_cookie /\ call.page > call.gk
    /\ result.needs_login = "true"

\* C2: a board fetch at the gatekeeper page is not failed as Gated, and a
\* board fetch beyond it fails with Gated, never with Login Required,
\* whatever the credential and the policy, before any request.
C2_BoardGate ==
    (pc /= "idle" /\ call.op = "board") =>
        /\ call.page > call.gk =>
              (pc = "done" /\ outcome = "GatekeptException" /\ attempts = 0)
        /\ call.page <= call.gk => outcome /= "GatekeptException"
        /\ (call.page = call.gk /\ (call.has_cookie \/ ~TableDecision)) => pc = "try" \/ attempts > 0

C2_Witness ==
    /\ pc = "done" /\ call.op = "board"
    /\ call.page = call.gk + 1 /\ call.has_cookie /\ call.policy = "enforce"
    /\ outcome = "GatekeptException"

\* C3: a thread fetch never fails with Gated; before the request is sent
\* it fails only with Login Required, and it does exactly when the login
\* decision is true and there is no credential.
C3_ThreadLogin ==
    (pc /= "idle" /\ call.op = "thread") =>
        /\ outcome /= "GatekeptException"
        /\ (pc = "done" /\ attempts = 0) => outcome = "RequiresLoginException"
        /\ (outcome = "RequiresLoginException") <=> (TableDecision /\ ~call.has_cookie)

C3_Witness ==
    /\ pc = "done" /\ call.op = "thread"
    /\ call.page > call.gk /\ ~call.has_cookie /\ call.policy = "when_required"
    /\ outcome = "RequiresLoginException"

\* the first p element of the container div that has class cls
FirstOf(div, cls) ==
    div[CHOOSE i \in DOMAIN div :
            /\ cls \in div[i].cls
            /\ \A j \in 1..(i - 1) : cls \notin div[j].cls]
Marked(div, cls) == \E i \in DOMAIN div : cls \in div[i].cls

\* C4: the response of a reply is classified in three ways: no container,
\* Unknown Response; a success marker, success, an error marker or not;
\* no success marker but an error marker, Reply Rejected with the text of
\* the first error marker and of the first detail marker, absent when
\* there is none or its text is empty; neither marker, Unknown Response.
C4_ReplyClassifier ==
    (pc = "done" /\ call.op = "reply" /\ outcome /= "HTTPError") =>
        IF call.doc = <<>> THEN outcome = "UnknownResponseException"
        ELSE IF Marked(call.doc[1], "success") THEN outcome = "ok"
        ELSE IF Marked(call.doc[1], "error")
        THEN /\ outcome = "ReplyException"
             /\ result.raw_error = FirstOf(call.doc[1], "error").text
             /\ IF Marked(call.doc[1], "detail")
                   /\ FirstOf(call.doc[1], "detail").text /= ""
                THEN result.raw_detail = Some(FirstOf(call.doc[1], "detail").text)
                ELSE result.raw_detail = Absent
        ELSE outcome = "UnknownResponseException"

C4_Witness ==
    /\ pc = "done" /\ call.op = "reply" /\ outcome = "ReplyException"
    /\ Marked(call.doc[1], "detail")
    /\ result.raw_detail = Absent
    /\ result.raw_error = "x"

\* C5: the executor invokes the request function at most max_attempts
\* times, one attempt after the other; it returns at the first attempt
\* that succeeds, after fewer than max_attempts transient failures, and it
\* raises the exhaustion failure after exactly max_attempts attempts that
\* all failed transiently, with no attempt after that.
C5_Executor ==
    Retrieval =>
        /\ attempts = Len(attemptLog)
        /\ attempts <= call.max_attempts
        /\ pc = "try" => (attempts < call.max_attempts /\ Kinds(attempts) \subseteq {"transient"})
        /\ (attempts > 0 /\ attemptLog[attempts].kind = "ok") =>
              (pc = "done" /\ executor = "returned")
        /\ executor = "returned" =>
              /\ attemptLog[attempts].kind = "ok"
              /\ Kinds(attempts - 1) \subseteq {"transient"}
              /\ call.op = "board" => outcome = "ok"
        /\ (attempts = call.max_attempts /\ Kinds(attempts) = {"transient"}) =>
              (pc = "done" /\ executor = "raised_exhausted" /\ outcome = "TransientError")
        /\ executor = "raised_exhausted" =>
              (attempts = call.max_attempts /\ Kinds(attempts) = {"transient"})

C5_Witness ==
    /\ pc = "done" /\ call.op = "thread" /\ call.max_attempts = 3
    /\ attempts = 3 /\ executor = "returned"
    /\ attemptLog[1].kind = "transient" /\ attemptLog[2].kind = "transient"

\* C6: the usage a retrieval workflow returns with its result is the sum
\* of the bytes of all the attempts of the operation, the failed ones
\* included, and the counters never decrease during the operation.
C6_UsageSum ==
    (Retrieval /\ pc = "done" /\ outcome = "ok") =>
        result.usage = SumUsage(attemptLog)

C6_UsageGrows ==
    (pc = "try" /\ pc' /= "idle") =>
        /\ usage'.uploaded >= usage.uploaded
        /\ usage'.downloaded >= usage.downloaded

C6_Usage == []C6_UsageSum /\ [][C6_UsageGrows]_vars

C6_Witness ==
    /\ Retrieval /\ pc = "done" /\ outcome = "ok" /\ attempts = 3
    /\ attemptLog[1].usage.downloaded = 2
    /\ result.usage = [uploaded |-> 3, downloaded |-> 5]

\* C9: in both retrieval workflows, when the login decision is true and
\* there is no credential, the workflow fails with Login Required before
\* any request: request_fn is not invoked, the executor is not entered.
C9_FailFast ==
    /\ (Retrieval /\ TableDecision /\ ~call.has_cookie
          /\ ~(call.op = "board" /\ PastGate)) =>
            /\ pc = "done"
            /\ outcome = "RequiresLoginException"
    /\ (Retrieval /\ outcome = "RequiresLoginException") =>
            /\ attempts = 0
            /\ attemptLog = <<>>
            /\ executor = "none"
            /\ usage = ZeroUsage

C9_Witness ==
    /\ pc = "done" /\ call.op = "board" /\ outcome = "RequiresLoginException"
    /\ call.policy = "enforce" /\ call.page = call.gk /\ attempts = 0

\* C7: a Thread constructed from a raw record and serialized with to_json,
\* its replies neither read nor assigned, reproduces the record: the same
\* keys in the same order with the same values, the reply collection at
\* its position.
C7_RoundTrip ==
    (pc = "object" /\ json /= NoJson /\ ~touched) =>
        /\ json.err = ""
        /\ json.doc = json_dumps(orig).doc

\* C8: a thread fetch with for_analysis returns a Thread whose replies are
\* the decoded reply Posts not written by the reserved identity, in their
\* order, for every thread record, one without a reply collection
\* included; without for_analysis no reply is removed.
C8_ForAnalysis ==
    (pc = "done" /\ call.op = "thread" /\ executor = "returned") =>
        /\ outcome = "ok"
        /\ thread.replies.kind /= "none" =>
              Yield(thread.replies) =
                 IF call.for_analysis THEN SelectSeq(PostsOf(orig), IsNotLuwei)
                 ELSE PostsOf(orig)

\* C10: until the setter is called, every read of replies yields the same
\* sequence, one Post for each raw reply record, in the original order.
C10_StableReplies ==
    (pc = "object" /\ ~assigned) =>
        \A i \in DOMAIN reads : reads[i] = PostsOf(orig)

====
